---- MODULE Spec2Model ----
(***************************************************************************)
(* State-machine model of the pharmacy sale transaction engine:            *)
(*   sales/views.py      process_sale, process_return                      *)
(*   sales/models.py     Sale.save, SaleItem.save, Return.save             *)
(*   inventory/views.py  batch_create, stock_adjustment                    *)
(*   inventory/api_views.py  BatchViewSet (retiring a batch)               *)
(*                                                                         *)
(* Money is held in cents (the DecimalFields have decimal_places=2).       *)
(* Values a save() computes in memory before they are written are held in  *)
(* units of 1/Scale cent, so that they are exact.  Dates are day numbers.  *)
(***************************************************************************)
EXTENDS Integers, Sequences, FiniteSets, TLC

\* ------------------------------------------------------------------ bounds
MaxDay == 2          \* the days modelled are 1..MaxDay
MaxBatches == 2      \* batch rows ever received
MaxSales == 1        \* Sale rows created where the back office is modelled too
MaxInvoices == 3     \* Sale rows created where only the tills are modelled
MaxQty == 2          \* largest quantity in one receipt, cart line or adjustment
MaxCart == 2         \* largest number of cart lines
MaxAdjustments == 1  \* StockAdjustment rows ever created
MaxAdjustQty == 1    \* largest quantity of one stock adjustment
MaxReturns == 1      \* Return rows ever created
MaxReturnLines == 2  \* largest number of lines in one return request

\* --------------------------------------------------------------- constants
DefaultTaxPercentage == 16   \* Sale.tax_percentage default
InvoicePad == 5              \* '{new_num:05d}'
ReturnPad == 4               \* '{new_num:04d}'
ReorderLevel == 20           \* Medicine.reorder_level default

Scale == 100 * 100           \* in-memory exact unit: 1/Scale cent

Medicines == 1..2            \* ids of the Medicine rows
CartMedicineIds == 1..3      \* ids a cart may name; 3 has no Medicine row
Customers == 1..1            \* ids of the Customer rows

\* Medicine.selling_price, in cents: 50.00 and 0.05
SellingPrice(m) == IF m = 1 THEN 5000 ELSE 5

Prescriptions == 1..1        \* ids of the Prescription rows

\* The payment forms submitted: customer_id and prescription_id (0: none),
\* discount_percentage and amount_paid (cents).
PaymentForms ==
    {[customer_id |-> 0, prescription_id |-> 0, discount_percentage |-> 0,
      amount_paid |-> 100],
     [customer_id |-> 1, prescription_id |-> 1, discount_percentage |-> 10,
      amount_paid |-> 12000]}
Quantities == (0 - 1)..MaxQty   \* int(item_data['quantity']): any integer
\* The deliveries received: <<medicine, quantity, expiry_date>>.  The first
\* expires when day 2 begins; the others outlive the days modelled.
Receipts == {<<1, 1, 2>>, <<1, 2, MaxDay + 1>>, <<2, 2, MaxDay + 1>>}
Terminals == 1..2            \* the tills that submit sales concurrently
Clerks == 1..2               \* the clerks that submit back-office requests concurrently
AdjustmentTypes == {"damaged", "expired", "lost", "return", "correction", "other"}

VARIABLES
    today,           \* the current date
    total_quantity,  \* Medicine.total_quantity, by medicine id
    batches,         \* Batch rows in creation (id) order
    sales,           \* Sale rows in creation (id) order
    saleItems,       \* SaleItem rows in creation (id) order
    returns,         \* Return rows
    prescriptions,   \* Prescription rows, by prescription id
    adjustments,     \* the number of StockAdjustment rows
    customers,       \* Customer rows: loyalty_points, total_purchases
    resp,            \* the last response: the view and its outcome
    txn,             \* by terminal: the process_sale transaction in flight
    office           \* by clerk: the back-office request in flight

vars == <<today, total_quantity, batches, sales, saleItems, returns,
          prescriptions, adjustments, customers, resp, txn, office>>

\* ------------------------------------------------------------------ helpers
Min(a, b) == IF a <= b THEN a ELSE b
Max(a, b) == IF a >= b THEN a ELSE b
Abs(a) == IF a < 0 THEN 0 - a ELSE a

RECURSIVE SumOver(_, _)
\* sum of f[i] over the finite set S of indices
SumOver(f, S) ==
    IF S = {} THEN 0
    ELSE LET i == CHOOSE x \in S : TRUE IN f[i] + SumOver(f, S \ {i})

\* sum of remaining_quantity over the batches of medicine m
BatchSum(bs, m) ==
    SumOver([b \in DOMAIN bs |-> bs[b].remaining_quantity],
            {b \in DOMAIN bs : bs[b].medicine = m})

\* ------------------------------------------------- decimals and strings
\* A DecimalField(decimal_places=2) value as written to its column: n/d cents
\* quantized to a whole number of cents, ties to even.
RoundHalfEven(n, d) ==
    LET a == Abs(n)
        q == a \div d
        r == a % d
        m == IF 2 * r > d \/ (2 * r = d /\ q % 2 = 1) THEN q + 1 ELSE q
    IN IF n < 0 THEN 0 - m ELSE m

Quantize(x) == RoundHalfEven(x, Scale)

RECURSIVE Digits(_)
\* the decimal digits of n >= 0, most significant first
Digits(n) == IF n < 10 THEN <<n>> ELSE Append(Digits(n \div 10), n % 10)

\* f'{n:0{w}d}': at least w digits, zero-padded on the left
ZeroPad(n, w) ==
    LET d == Digits(n)
    IN IF Len(d) >= w THEN d ELSE [i \in 1..(w - Len(d)) |-> 0] \o d

RECURSIVE ParseInt(_)
\* int(s) of a digit string
ParseInt(s) ==
    IF s = <<>> THEN 0
    ELSE 10 * ParseInt(SubSeq(s, 1, Len(s) - 1)) + s[Len(s)]

\* string order of two digit strings (ORDER BY on a CharField)
StrLess(a, b) ==
    \/ \E i \in 1..Min(Len(a), Len(b)) :
          a[i] < b[i] /\ \A j \in 1..(i - 1) : a[j] = b[j]
    \/ Len(a) < Len(b) /\ \A j \in 1..Len(a) : a[j] = b[j]

\* ---------------------------------------------------------------- Sale.save
\* An invoice number 'INV-<date>-<seq>' is the record [date, seq]; <<>> is ''.
\* The number Sale.save gives a new row: one more than the number parsed
\* from the greatest (as a string) invoice number with the date's prefix.
\* (variant: the prefix filter of the query dropped, every row is considered)
NewInvoiceNumAnyDate(rows, day) ==
    LET same == DOMAIN rows
    IN IF same = {} THEN 1
       ELSE LET last == CHOOSE i \in same : \A j \in same :
                            ~StrLess(rows[i].invoice_number.seq,
                                     rows[j].invoice_number.seq)
            IN ParseInt(rows[last].invoice_number.seq) + 1

NewInvoiceNum(rows, day) ==
    LET same == {i \in DOMAIN rows : rows[i].invoice_number.date = day}
    IN IF same = {} THEN 1
       ELSE LET last == CHOOSE i \in same : \A j \in same :
                            ~StrLess(rows[i].invoice_number.seq,
                                     rows[j].invoice_number.seq)
            IN ParseInt(rows[last].invoice_number.seq) + 1

FormatInvoiceNumber(day, n) == [date |-> day, seq |-> ZeroPad(n, InvoicePad)]

\* The derived amounts, in 1/Scale cent, from subtotal (cents) and percentages.
DiscountAmount(subtotal, discount_percentage) ==
    (subtotal * discount_percentage) * (Scale \div 100)

\* (variant: tax charged on the subtotal, the discount ignored)
TaxOnSubtotal(subtotal, discount_percentage, tax_percentage) ==
    ((subtotal * Scale) \div 100) * tax_percentage

\* (the taxable amount is a whole number of 1/100 cent, so dividing first is exact)
TaxAmount(subtotal, discount_percentage, tax_percentage) ==
    ((subtotal * Scale - DiscountAmount(subtotal, discount_percentage)) \div 100)
        * tax_percentage

\* Sale.save on the in-memory object `self` (rows: the Sale table it reads).
\* subtotal and amount_paid are in cents, the derived amounts in 1/Scale cent.
SaleSave(self, rows, day) ==
    LET number == IF self.invoice_number = <<>>
                  THEN FormatInvoiceNumber(day, NewInvoiceNum(rows, day))
                  ELSE self.invoice_number
        discount == DiscountAmount(self.subtotal, self.discount_percentage)
        taxable == self.subtotal * Scale - discount
        tax == TaxAmount(self.subtotal, self.discount_percentage, self.tax_percentage)
        total == taxable + tax
    IN [self EXCEPT
            !.invoice_number = number,
            !.discount_amount = discount,
            !.tax_amount = tax,
            !.total_amount = total,
            !.change_amount = IF self.amount_paid * Scale >= total
                              THEN self.amount_paid * Scale - total
                              ELSE @]

\* The row the database keeps of an in-memory Sale: decimals quantized.
SaleRow(self) ==
    [self EXCEPT
        !.discount_amount = Quantize(@),
        !.tax_amount = Quantize(@),
        !.total_amount = Quantize(@),
        !.change_amount = Quantize(@)]

\* Sale(...) as process_sale constructs it, before the first save.
NewSale(id, day, customer, prescription, discount_percentage, amount_paid) ==
    [id |-> id,
     prescription |-> prescription,
     invoice_number |-> <<>>,
     sale_date |-> day,
     customer |-> customer,
     subtotal |-> 0,
     discount_percentage |-> discount_percentage,
     discount_amount |-> 0,
     tax_percentage |-> DefaultTaxPercentage,
     tax_amount |-> 0,
     total_amount |-> 0,
     amount_paid |-> amount_paid,
     change_amount |-> 0,
     status |-> "completed"]

\* -------------------------------------------------- process_sale: one line
\* A store is the part of the database a cart line reads and writes:
\* [tq: Medicine.total_quantity, batches: Batch rows, items: SaleItem rows].

\* The orders in which ORDER BY expiry_date may return the batch rows: every
\* permutation of the ids that is ascending in expiry_date (rows with equal
\* expiry_date come in an order the database chooses).
ExpiryOrders(bs) ==
    {ord \in [DOMAIN bs -> DOMAIN bs] :
        /\ \A i, j \in DOMAIN bs : i # j => ord[i] # ord[j]
        /\ \A i, j \in DOMAIN bs :
              i < j => bs[ord[i]].expiry_date <= bs[ord[j]].expiry_date}

\* medicine.batches.filter(is_active=True, remaining_quantity__gte=q,
\*                         expiry_date__gt=today)
BatchFilter(bs, m, q, day) ==
    {b \in DOMAIN bs :
        /\ bs[b].medicine = m
        /\ bs[b].is_active
        /\ bs[b].remaining_quantity >= q
        /\ bs[b].expiry_date > day}

\* .order_by('expiry_date').first() over the set c of rows: 0 when none
FirstBatch(c, ord) ==
    IF c = {} THEN 0
    ELSE ord[CHOOSE k \in DOMAIN ord :
                 ord[k] \in c /\ \A j \in 1..(k - 1) : ord[j] \notin c]

\* SaleItem.objects.create(...): SaleItem.save sets total_price
NewSaleItem(sale, m, b, quantity) ==
    [sale |-> sale, medicine |-> m, batch |-> b, quantity |-> quantity,
     unit_price |-> SellingPrice(m),
     total_price |-> quantity * SellingPrice(m)]

\* Debit `quantity` from batch b for the sale: one SaleItem, one batch save.
DebitBatch(st, sale, m, b, quantity) ==
    [st EXCEPT
        !.items = Append(@, NewSaleItem(sale, m, b, quantity)),
        !.batches[b].remaining_quantity = @ - quantity]

RECURSIVE MultiBatchLoop(_, _, _, _, _, _, _)
\* `for b in batches:` over the rows c fetched before the loop, from position
\* k of the order on; the result is the store and the quantity still needed.
MultiBatchLoop(st, sale, m, c, ord, k, remaining_qty) ==
    IF k > Len(ord) THEN [st |-> st, remaining_qty |-> remaining_qty]
    ELSE IF ord[k] \notin c
         THEN MultiBatchLoop(st, sale, m, c, ord, k + 1, remaining_qty)
    ELSE IF remaining_qty <= 0 THEN [st |-> st, remaining_qty |-> remaining_qty]
    ELSE LET b == ord[k]
             qty_from_batch == Min(st.batches[b].remaining_quantity, remaining_qty)
         IN MultiBatchLoop(DebitBatch(st, sale, m, b, qty_from_batch),
                           sale, m, c, ord, k + 1, remaining_qty - qty_from_batch)

\* The stock check on the locked Medicine row.
StockCheckFails(tq, quantity) == tq < quantity

\* The body of `for item_data in cart_items` for one line, on store st.
\* The result is the store after the line and the error raised ("" if none).
SaleLine(st, sale, m, quantity, day, ord) ==
    IF m \notin Medicines THEN [st |-> st, err |-> "Medicine not found"]
    ELSE IF StockCheckFails(st.tq[m], quantity)
         THEN [st |-> st, err |-> "Insufficient stock"]
    ELSE LET batch == FirstBatch(BatchFilter(st.batches, m, quantity, day), ord)
         IN IF batch = 0
            THEN LET r == MultiBatchLoop(st, sale, m,
                                         BatchFilter(st.batches, m, 1, day),
                                         ord, 1, quantity)
                 IN IF r.remaining_qty > 0
                    THEN [st |-> r.st, err |-> "Insufficient stock"]
                    ELSE [st |-> [r.st EXCEPT !.tq[m] = @ - quantity],
                          err |-> ""]
            ELSE [st |-> [DebitBatch(st, sale, m, batch, quantity)
                              EXCEPT !.tq[m] = @ - quantity],
                  err |-> ""]

RECURSIVE SaleLines(_, _, _, _, _, _)
\* The cart loop from line i on; it stops at the first line that raises.
SaleLines(st, sale, cart, day, ords, i) ==
    IF i > Len(cart) THEN [st |-> st, err |-> ""]
    ELSE LET r == SaleLine(st, sale, cart[i].medicine_id, cart[i].quantity,
                           day, ords[i])
         IN IF r.err # "" THEN r
            ELSE SaleLines(r.st, sale, cart, day, ords, i + 1)

\* ------------------------------------------------------------ the requests
CartLines == [medicine_id : CartMedicineIds, quantity : Quantities]
Carts == UNION {[1..n -> CartLines] : n \in 0..MaxCart}

Response(view, result) == [view |-> view, result |-> result]

\* A clerk with no request in flight.
IdleOffice == [pc |-> "idle"]

\* A till with no transaction in flight.
IdleTxn ==
    [pc |-> "idle", cart |-> <<>>, i |-> 0, sale |-> NewSale(0, 0, 0, 0, 0, 0),
     locks |-> {}, tq |-> <<>>, rem |-> <<>>, items |-> <<>>,
     plan |-> <<>>, customer |-> <<>>, result |-> ""]

\* int(d) of a decimal n/d: truncation towards zero
TruncDiv(n, d) == IF n < 0 THEN 0 - ((0 - n) \div d) ELSE n \div d

\* `if sale.customer:` ... sale.customer.save(): the Customer row `row` as it
\* was read, after the in-memory sale is added to it
CustomerAfterSale(row, sale) ==
    [row EXCEPT
        !.total_purchases = Quantize(@ * Scale + sale.total_amount),
        !.loyalty_points = @ + TruncDiv(sale.total_amount, Scale * 100 * 100)]

\* sale.items.aggregate(total=Sum('total_price'))['total'] or Decimal('0')
ItemsTotal(items, sale) ==
    SumOver([i \in DOMAIN items |-> items[i].total_price],
            {i \in DOMAIN items : items[i].sale = sale})

\* A Prescription row as it is before any sale: pending, not stamped.
PendingPrescription ==
    [status |-> "pending", filled_by |-> "None", filled_at |-> 0]

\* sale.prescription.status = 'filled', filled_by = request.user,
\* filled_at = timezone.now() (here the day), save()
PrescriptionAfterSale(row, day) ==
    [row EXCEPT !.status = "filled", !.filled_by = "request.user",
                !.filled_at = day]

\* ------------------------------------------------------------ process_sale
\* The whole view, run alone.  The try block catches what the cart loop
\* raises and returns a response, so the atomic block around the view
\* commits whatever was written before the error.
\* (variant: the cart is never found empty)
CartNeverEmpty(cart) == FALSE

\* `if not cart_items:`
CartIsEmpty(cart) == cart = <<>>

ProcessSale(cart, form, ords) ==
    IF CartIsEmpty(cart)
    THEN /\ resp' = Response("process_sale", "Cart is empty")
         /\ UNCHANGED <<today, total_quantity, batches, sales, saleItems,
                        returns, adjustments, customers, txn,
                        prescriptions, office>>
    ELSE LET id == Len(sales) + 1
             created == SaleSave(NewSale(id, today, form.customer_id,
                                         form.prescription_id,
                                         form.discount_percentage,
                                         form.amount_paid),
                                 sales, today)
             r == SaleLines([tq |-> total_quantity, batches |-> batches,
                             items |-> saleItems],
                            id, cart, today, ords, 1)
             saved == SaleSave([created EXCEPT
                                   !.subtotal = ItemsTotal(r.st.items, id)],
                               sales, today)
         IN /\ total_quantity' = r.st.tq
            /\ batches' = r.st.batches
            /\ saleItems' = r.st.items
            /\ IF r.err # ""
               THEN /\ sales' = Append(sales, SaleRow(created))
                    /\ customers' = customers
                    /\ prescriptions' = prescriptions
                    /\ resp' = Response("process_sale", r.err)
               ELSE /\ sales' = Append(sales, SaleRow(saved))
                    /\ customers' =
                          IF saved.customer = 0 THEN customers
                          ELSE [customers EXCEPT ![saved.customer] =
                                    CustomerAfterSale(@, saved)]
                    /\ prescriptions' =
                          IF saved.prescription = 0 THEN prescriptions
                          ELSE [prescriptions EXCEPT ![saved.prescription] =
                                    PrescriptionAfterSale(@, today)]
                    /\ resp' = Response("process_sale", "success")
            /\ UNCHANGED <<today, returns, adjustments, txn, office>>

\* ------------------------------------------------------------ batch_create
BatchCreate(m, quantity, expiry_date) ==
    /\ Len(batches) < MaxBatches
    /\ batches' = Append(batches,
                         [medicine |-> m, quantity |-> quantity,
                          remaining_quantity |-> quantity,
                          expiry_date |-> expiry_date, is_active |-> TRUE])
    /\ total_quantity' = [total_quantity EXCEPT ![m] = @ + quantity]
    /\ resp' = Response("batch_create", "success")
    /\ UNCHANGED <<today, sales, saleItems, returns, adjustments, customers, txn,
                   prescriptions, office>>

\* -------------------------------------------------------- stock_adjustment
ReducesStock(adjustment_type) ==
    adjustment_type \in {"damaged", "expired", "lost", "return"}

\* batch_id = 0: no batch chosen in the form
StockAdjustment(m, adjustment_type, quantity, batch_id) ==
    /\ adjustments < MaxAdjustments
    /\ adjustments' = adjustments + 1
    /\ batch_id # 0 => batch_id \in DOMAIN batches /\ batches[batch_id].medicine = m
    /\ IF ReducesStock(adjustment_type)
       THEN /\ total_quantity' =
                  [total_quantity EXCEPT ![m] = Max(0, @ - Abs(quantity))]
            /\ batches' =
                  IF batch_id = 0 THEN batches
                  ELSE [batches EXCEPT ![batch_id].remaining_quantity =
                                           Max(0, @ - Abs(quantity))]
       ELSE /\ total_quantity' =
                  [total_quantity EXCEPT ![m] = @ + Abs(quantity)]
            /\ batches' =
                  IF batch_id = 0 THEN batches
                  ELSE [batches EXCEPT ![batch_id].remaining_quantity =
                                           @ + Abs(quantity)]
    /\ resp' = Response("stock_adjustment", "success")
    /\ UNCHANGED <<today, sales, saleItems, returns, customers, txn,
                   prescriptions, office>>

\* ------------------------------------------- BatchViewSet: retiring a batch
BatchDeactivate(b) ==
    /\ b \in DOMAIN batches
    /\ batches[b].is_active
    /\ batches' = [batches EXCEPT ![b].is_active = FALSE]
    /\ resp' = Response("batch_update", "success")
    /\ UNCHANGED <<today, total_quantity, sales, saleItems, returns, adjustments,
                   customers, txn, prescriptions, office>>

\* ---------------------------------------------------------- process_return
\* Return.save: the number of a new Return row, from the greatest (as a
\* string) return number with the date's prefix
NewReturnNum(rows, day) ==
    LET same == {i \in DOMAIN rows : rows[i].return_number.date = day}
    IN IF same = {} THEN 1
       ELSE LET last == CHOOSE i \in same : \A j \in same :
                            ~StrLess(rows[i].return_number.seq,
                                     rows[j].return_number.seq)
            IN ParseInt(rows[last].return_number.seq) + 1

FormatReturnNumber(day, n) == [date |-> day, seq |-> ZeroPad(n, ReturnPad)]

\* A Return row with its ReturnItem rows (amounts in cents).
NewReturn(rows, day, sale_id, refund_amount, items) ==
    [return_number |-> FormatReturnNumber(day, NewReturnNum(rows, day)),
     original_sale |-> sale_id,
     refund_amount |-> refund_amount,
     items |-> items]

\* ReturnItem.objects.create(...): ReturnItem.save sets total_refund
NewReturnItem(sale_item, m, quantity, unit_price, restock) ==
    [sale_item |-> sale_item, medicine |-> m, quantity |-> quantity,
     unit_price |-> unit_price, total_refund |-> quantity * unit_price,
     restock |-> restock]

\* (variant: the INSERT of the Return row goes through)
ReturnCreateWorks == FALSE

\* Return.objects.create(...) passes no refund_amount, a column with neither
\* a default nor null=True: the INSERT violates NOT NULL, save() marks the
\* atomic block for rollback, and the view reports the error.
ReturnCreateFails == TRUE

\* The body of `for item_id, quantity_str in zip(...)` for one line, on
\* st = [tq, batches, items: the ReturnItem rows, refund_amount]; restock is
\* the set of item ids whose restock box is on.  The result is the store
\* after the line and whether the line raised.
ReturnLine(st, line, restock) ==
    IF line.item_id \notin DOMAIN saleItems THEN [st |-> st, err |-> TRUE]
    ELSE LET sale_item == saleItems[line.item_id] IN
         IF line.quantity > sale_item.quantity THEN [st |-> st, err |-> TRUE]
         ELSE LET item == NewReturnItem(line.item_id, sale_item.medicine,
                                        line.quantity, sale_item.unit_price,
                                        line.item_id \in restock)
                  added == [st EXCEPT
                               !.items = Append(@, item),
                               !.refund_amount = @ + item.total_refund]
              IN [st |-> IF item.restock
                         THEN [added EXCEPT
                                  !.tq[sale_item.medicine] = @ + line.quantity,
                                  !.batches[sale_item.batch].remaining_quantity =
                                      @ + line.quantity]
                         ELSE added,
                  err |-> FALSE]

RECURSIVE ReturnLines(_, _, _, _)
\* The loop over the request from line i on; it stops at the line that raises.
ReturnLines(st, items_to_return, restock, i) ==
    IF i > Len(items_to_return) THEN [st |-> st, err |-> FALSE]
    ELSE LET r == ReturnLine(st, items_to_return[i], restock)
         IN IF r.err THEN r
            ELSE ReturnLines(r.st, items_to_return, restock, i + 1)

\* A Sale row read from the table into memory (amounts in 1/Scale cent).
LoadSale(row) ==
    [row EXCEPT
        !.discount_amount = @ * Scale,
        !.tax_amount = @ * Scale,
        !.total_amount = @ * Scale,
        !.change_amount = @ * Scale]

\* (variant: the refund asked for is taken off the sale's total_amount)
ProcessReturnNetOfRefund(sale_id, items_to_return, restock) ==
    /\ sale_id \in DOMAIN sales
    /\ LET r == ReturnLines([tq |-> total_quantity, batches |-> batches,
                             items |-> <<>>, refund_amount |-> 0],
                            items_to_return, restock, 1)
       IN /\ sales' = [sales EXCEPT
                          ![sale_id].total_amount = @ - r.st.refund_amount,
                          ![sale_id].status = "refunded"]
          /\ resp' = Response("process_return",
                              IF r.err THEN "Error processing return"
                              ELSE "success")
    /\ UNCHANGED <<today, total_quantity, batches, saleItems, returns,
                   adjustments, customers, txn, prescriptions, office>>

\* The whole view.  items_to_return pairs items[] with quantities[].  Once
\* the Return row exists, an error raised by a line is caught inside the
\* atomic view, which then commits what the earlier lines wrote.
ProcessReturn(sale_id, items_to_return, restock) ==
    /\ sale_id \in DOMAIN sales
    /\ IF items_to_return = <<>>
       THEN /\ resp' = Response("process_return", "No items selected for return")
            /\ UNCHANGED <<total_quantity, batches, sales, returns>>
       ELSE IF ReturnCreateFails
       THEN /\ resp' = Response("process_return", "Error processing return")
            /\ UNCHANGED <<total_quantity, batches, sales, returns>>
       ELSE LET r == ReturnLines([tq |-> total_quantity, batches |-> batches,
                                  items |-> <<>>, refund_amount |-> 0],
                                 items_to_return, restock, 1)
            IN /\ Len(returns) < MaxReturns
               /\ total_quantity' = r.st.tq
               /\ batches' = r.st.batches
               /\ IF r.err
                  THEN /\ returns' = Append(returns,
                                            NewReturn(returns, today, sale_id,
                                                      0, r.st.items))
                       /\ sales' = sales
                       /\ resp' = Response("process_return",
                                           "Error processing return")
                  ELSE /\ returns' = Append(returns,
                                            NewReturn(returns, today, sale_id,
                                                      r.st.refund_amount,
                                                      r.st.items))
                       /\ sales' = [sales EXCEPT ![sale_id] =
                                       SaleRow(SaleSave(
                                           [LoadSale(@) EXCEPT
                                               !.status = "refunded"],
                                           sales, today))]
                       /\ resp' = Response("process_return", "success")
    /\ UNCHANGED <<today, saleItems, adjustments, customers, txn,
                   prescriptions, office>>

\* ReturnAdmin with ReturnItemInline: the admin's add form saves a Return
\* with the refund_amount typed in and the inline rows as typed.  A row's
\* sale_item is any SaleItem row and its quantity passes MinValueValidator(1)
\* only; medicine and unit_price are typed in too, here as the sale item has
\* them.  Nothing is restocked.
ReturnAdminAdd(sale_id, rows, refund_amount) ==
    /\ sale_id \in DOMAIN sales
    /\ Len(returns) < MaxReturns
    /\ \A i \in DOMAIN rows : rows[i].item_id \in DOMAIN saleItems
    /\ returns' = Append(returns,
           NewReturn(returns, today, sale_id, refund_amount,
                     [i \in DOMAIN rows |->
                         NewReturnItem(rows[i].item_id,
                                       saleItems[rows[i].item_id].medicine,
                                       rows[i].quantity,
                                       saleItems[rows[i].item_id].unit_price,
                                       FALSE)]))
    /\ resp' = Response("admin_return_add", "success")
    /\ UNCHANGED <<today, total_quantity, batches, sales, saleItems,
                   adjustments, customers, txn, prescriptions,
                   office>>

\* ------------------------------------------------- the views that only read
\* the queries typed at the POS and in the medicine list, and the medicines
\* whose name, generic name or sku contains each
SearchQueries == {"a", "para", "amox", "tab"}
Matches(query) ==
    CASE query = "para" -> {1}
      [] query = "amox" -> {2}
      [] query = "tab" -> {1, 2}
      [] OTHER -> {}

\* medicine.batches.filter(is_active=True, remaining_quantity__gt=0,
\*     expiry_date__gt=today).aggregate(total=Sum('remaining_quantity'))
\* ['total'] or 0
AvailableStock(bs, m, day) ==
    SumOver([b \in DOMAIN bs |-> bs[b].remaining_quantity],
            {b \in DOMAIN bs : /\ bs[b].medicine = m
                               /\ bs[b].is_active
                               /\ bs[b].remaining_quantity > 0
                               /\ bs[b].expiry_date > day})

\* (variant: a read writes the total it has just computed back to the row)
ResyncOnRead(tq, bs, day) ==
    [m \in Medicines |-> AvailableStock(bs, m, day)]

\* What a read-only view leaves in Medicine.total_quantity: neither view
\* calls save(), update() or delete().
KeptOnRead(tq, bs, day) == tq

\* search_medicine_ajax: the medicines matching q with total_quantity > 0,
\* each with the stock of its eligible batches
SearchMedicineAjax(query) ==
    /\ resp' = Response("search_medicine_ajax",
                  IF Len(query) < 2 THEN {}
                  ELSE {[id |-> m,
                         stock |-> AvailableStock(batches, m, today)] :
                           m \in {x \in Matches(query) : total_quantity[x] > 0}})
    /\ total_quantity' = KeptOnRead(total_quantity, batches, today)
    /\ UNCHANGED <<today, batches, sales, saleItems, returns, adjustments,
                   customers, txn, prescriptions, office>>

StockFilters == {"", "low", "out"}

\* medicine_list: search_query "" is no search; the page of medicines shown
MedicineList(search_query, stock_filter) ==
    /\ resp' = Response("medicine_list",
                  {[id |-> m, total_quantity |-> total_quantity[m]] :
                      m \in {x \in Medicines :
                               /\ search_query # "" => x \in Matches(search_query)
                               /\ stock_filter = "low"
                                     => total_quantity[x] <= ReorderLevel
                               /\ stock_filter = "out"
                                     => total_quantity[x] = 0}})
    /\ total_quantity' = KeptOnRead(total_quantity, batches, today)
    /\ UNCHANGED <<today, batches, sales, saleItems, returns, adjustments,
                   customers, txn, prescriptions, office>>

\* ------------------------------------------------------- the date advances
NextDay ==
    /\ today < MaxDay
    /\ today' = today + 1
    /\ UNCHANGED <<total_quantity, batches, sales, saleItems, returns, adjustments,
                   customers, resp, txn, prescriptions, office>>

\* the return requests: lines of (sale item id, quantity), up to one more
\* than a cart line can have sold
ReturnLinesOf == [item_id : 1..MaxCart, quantity : 1..(MaxQty + 1)]
ReturnRequests == UNION {[1..n -> ReturnLinesOf] : n \in 0..MaxReturnLines}
FewReturnRequests == {<<>>, <<[item_id |-> 1, quantity |-> 1]>>}

\* ---------------------------------------- specification: the whole system
\* The views run one at a time, from an empty store.
Init ==
    /\ today = 1
    /\ total_quantity = [m \in Medicines |-> 0]
    /\ batches = <<>>
    /\ sales = <<>>
    /\ saleItems = <<>>
    /\ returns = <<>>
    /\ prescriptions = [x \in Prescriptions |-> PendingPrescription]
    /\ adjustments = 0
    /\ customers = [c \in Customers |-> [loyalty_points |-> 0, total_purchases |-> 0]]
    /\ resp = Response("none", "none")
    /\ txn = [p \in Terminals |-> IdleTxn]
    /\ office = [c \in Clerks |-> IdleOffice]

Next ==
    \/ /\ Len(sales) < MaxSales
       /\ \E cart \in Carts, form \in PaymentForms :
             \E ords \in [1..Len(cart) -> ExpiryOrders(batches)] :
                ProcessSale(cart, form, ords)
    \/ \E r \in Receipts : BatchCreate(r[1], r[2], r[3])
    \/ \E m \in Medicines, adjustment_type \in AdjustmentTypes,
          quantity \in 1..MaxAdjustQty, batch_id \in 0..MaxBatches :
          StockAdjustment(m, adjustment_type, quantity, batch_id)
    \/ \E b \in 1..MaxBatches : BatchDeactivate(b)
    \/ \E sale_id \in 1..MaxSales, items_to_return \in FewReturnRequests :
          ProcessReturn(sale_id, items_to_return, {})
    \/ NextDay

Spec == Init /\ [][Next]_vars

\* ---------------------------------------------- specification: the tills
\* Sales, returns and the passing of days over a store stocked by two
\* deliveries (batch_create of the second and third receipt).
StockedBatches ==
    <<[medicine |-> 1, quantity |-> 2, remaining_quantity |-> 2,
       expiry_date |-> MaxDay + 1, is_active |-> TRUE],
      [medicine |-> 2, quantity |-> 2, remaining_quantity |-> 2,
       expiry_date |-> MaxDay + 1, is_active |-> TRUE]>>

InitPOS ==
    /\ today = 1
    /\ total_quantity = [m \in Medicines |-> BatchSum(StockedBatches, m)]
    /\ batches = StockedBatches
    /\ sales = <<>>
    /\ saleItems = <<>>
    /\ returns = <<>>
    /\ prescriptions = [x \in Prescriptions |-> PendingPrescription]
    /\ adjustments = 0
    /\ customers = [c \in Customers |-> [loyalty_points |-> 0, total_purchases |-> 0]]
    /\ resp = Response("batch_create", "success")
    /\ txn = [p \in Terminals |-> IdleTxn]
    /\ office = [c \in Clerks |-> IdleOffice]

NextPOS ==
    \/ /\ Len(sales) < MaxInvoices
       /\ \E cart \in {c \in Carts : Len(c) <= 1}, form \in PaymentForms :
             \E ords \in [1..Len(cart) -> ExpiryOrders(batches)] :
                ProcessSale(cart, form, ords)
    \/ \E sale_id \in 1..MaxInvoices, items_to_return \in FewReturnRequests :
          ProcessReturn(sale_id, items_to_return, {})
    \/ NextDay

SpecPOS == InitPOS /\ [][NextPOS]_vars

\* ---------------------------------------- specification: the returns desk
\* The stocked store, one sale of a cart of stocked medicines, then return
\* requests of up to MaxReturnLines lines and Return rows added in the admin.
SoldCarts ==
    {c \in Carts : /\ c # <<>>
                   /\ \A i \in DOMAIN c : /\ c[i].medicine_id \in Medicines
                                          /\ c[i].quantity >= 1}
AdminRefunds == {0}
RestockChoices == {{}, 1..MaxCart}

NextRet ==
    \/ /\ Len(sales) < MaxSales
       /\ \E cart \in SoldCarts, form \in PaymentForms :
             \E ords \in [1..Len(cart) -> ExpiryOrders(batches)] :
                ProcessSale(cart, form, ords)
    \/ \E sale_id \in 1..MaxSales, items_to_return \in ReturnRequests,
          restock \in RestockChoices :
          ProcessReturn(sale_id, items_to_return, restock)
    \/ \E sale_id \in 1..MaxSales, rows \in ReturnRequests,
          refund_amount \in AdminRefunds :
          ReturnAdminAdd(sale_id, rows, refund_amount)
    \/ NextDay

SpecRet == InitPOS /\ [][NextRet]_vars

\* ------------------------------------------- specification: the catalogue
\* The back office receives, adjusts and retires stock while the POS search
\* and the medicine list are read.
NextRead ==
    \/ \E r \in Receipts : BatchCreate(r[1], r[2], r[3])
    \/ \E m \in Medicines, adjustment_type \in AdjustmentTypes,
          quantity \in 1..MaxAdjustQty, batch_id \in 0..MaxBatches :
          StockAdjustment(m, adjustment_type, quantity, batch_id)
    \/ \E b \in 1..MaxBatches : BatchDeactivate(b)
    \/ \E query \in SearchQueries : SearchMedicineAjax(query)
    \/ \E search_query \in SearchQueries \cup {""},
          stock_filter \in StockFilters :
          MedicineList(search_query, stock_filter)
    \/ NextDay

SpecRead == Init /\ [][NextRead]_vars

\* ------------------------------------------ specification: the stock room
\* Sales of carts of stocked medicines with quantities from 1, returns, and
\* the back office, whose batch form carries any integer as its quantity
\* (int(request.POST['quantity']), not validated).
ReceiptForms == Receipts \cup {<<1, 0 - 1, MaxDay + 1>>}

NextRoom ==
    \/ /\ Len(sales) < MaxSales
       /\ \E cart \in SoldCarts, form \in PaymentForms :
             \E ords \in [1..Len(cart) -> ExpiryOrders(batches)] :
                ProcessSale(cart, form, ords)
    \/ \E r \in ReceiptForms : BatchCreate(r[1], r[2], r[3])
    \/ \E m \in Medicines, adjustment_type \in AdjustmentTypes,
          quantity \in 1..MaxAdjustQty, batch_id \in 0..MaxBatches :
          StockAdjustment(m, adjustment_type, quantity, batch_id)
    \/ \E sale_id \in 1..MaxSales, items_to_return \in FewReturnRequests :
          ProcessReturn(sale_id, items_to_return, {})
    \/ NextDay

SpecRoom == Init /\ [][NextRoom]_vars

\* ======================================================================
\* Two tills at once.  Each terminal runs process_sale as a transaction of
\* a row-locking database at READ COMMITTED: a statement reads the committed
\* rows overlaid with the transaction's own writes, writes stay private
\* until the commit, a second writer of a row waits for the first to end,
\* and an INSERT of a unique key that another open transaction has inserted
\* waits for that transaction too.
\* ======================================================================
EmptyRows == [x \in {} |-> 0]

\* the tills' carts: known medicines, positive quantities
ConcCarts ==
    UNION {[1..n -> [medicine_id : Medicines, quantity : 1..MaxQty]] :
              n \in 1..MaxCart}
ConcForms == {f \in PaymentForms : f.customer_id # 0}

\* the positions at which the transaction's Sale row is inserted, uncommitted
Inserted == {"line", "write", "totals", "commit"}

\* what the transaction of terminal p reads
View(p) ==
    [tq |-> [m \in Medicines |->
                IF m \in DOMAIN txn[p].tq THEN txn[p].tq[m]
                ELSE total_quantity[m]],
     batches |-> [b \in DOMAIN batches |->
                IF b \in DOMAIN txn[p].rem
                THEN [batches[b] EXCEPT !.remaining_quantity = txn[p].rem[b]]
                ELSE batches[b]],
     items |-> txn[p].items]

\* the terminal's record once its request is answered
Answered(t, result) ==
    [IdleTxn EXCEPT !.pc = "done", !.cart = t.cart, !.sale = t.sale,
                    !.result = result]

\* (variant: the Medicine row is read without a lock)
NoLock(p, m) == TRUE

\* select_for_update() on Medicine m returns only when no other open
\* transaction holds the row's lock
CanLock(p, m) == \A q \in Terminals \ {p} : m \notin txn[q].locks

\* a row write proceeds only when no other open transaction has written the row
CanWrite(p) ==
    \A q \in Terminals \ {p} :
       /\ DOMAIN txn[p].plan.tq \cap DOMAIN txn[q].tq = {}
       /\ DOMAIN txn[p].plan.rem \cap DOMAIN txn[q].rem = {}

\* the INSERT of the Sale row proceeds only when no other open transaction
\* has inserted the same invoice_number
CanInsert(p) ==
    \A q \in Terminals \ {p} :
       ~(/\ txn[q].pc \in Inserted
         /\ txn[q].sale.invoice_number = txn[p].sale.invoice_number)

\* process_sale up to Sale.objects.create: Sale.save computes the invoice
\* number from the committed Sale rows
BeginSale(p, cart, form) ==
    /\ txn[p].pc = "idle"
    /\ txn' = [txn EXCEPT ![p] =
                  [IdleTxn EXCEPT
                      !.pc = "insert", !.cart = cart,
                      !.sale = SaleSave(NewSale(0, today, form.customer_id,
                                                form.prescription_id,
                                                form.discount_percentage,
                                                form.amount_paid),
                                        sales, today)]]
    /\ UNCHANGED <<today, total_quantity, batches, sales, saleItems, returns,
                   adjustments, customers, resp, prescriptions,
                   office>>

\* super().save(): the INSERT.  A committed row with the same invoice_number
\* makes it an IntegrityError: save marks the transaction for rollback, the
\* view answers with the error and nothing is kept.
InsertSale(p) ==
    /\ txn[p].pc = "insert"
    /\ CanInsert(p)
    /\ IF \E i \in DOMAIN sales :
             sales[i].invoice_number = txn[p].sale.invoice_number
       THEN /\ txn' = [txn EXCEPT ![p] = Answered(@, "Error processing sale")]
            /\ resp' = Response("process_sale", "Error processing sale")
       ELSE /\ txn' = [txn EXCEPT
                          ![p].pc = "line", ![p].i = 1,
                          ![p].sale.id =
                             1 + Cardinality({q \in Terminals :
                                                 txn[q].sale.id # 0})]
            /\ resp' = resp
    /\ UNCHANGED <<today, total_quantity, batches, sales, saleItems, returns,
                   adjustments, customers, prescriptions, office>>

\* Medicine.objects.select_for_update().get(id=medicine_id) and the reads of
\* the cart line made under the lock: the stock check and the batch queries.
\* The plan is what the line will write: rows by id with their new values.
LockMedicine(p, ord) ==
    /\ txn[p].pc = "line"
    /\ LET t == txn[p]
           m == t.cart[t.i].medicine_id
           v == View(p)
           r == SaleLine(v, t.sale.id, m, t.cart[t.i].quantity, today, ord)
       IN /\ CanLock(p, m)
          /\ txn' = [txn EXCEPT
                ![p].pc = "write",
                ![p].locks = @ \cup {m},
                ![p].plan =
                   [tq |-> [x \in {y \in {m} : r.err = ""} |-> r.st.tq[x]],
                    rem |-> [b \in {c \in DOMAIN batches :
                                       r.st.batches[c] # v.batches[c]} |->
                                r.st.batches[b].remaining_quantity],
                    items |-> r.st.items,
                    err |-> r.err]]
    /\ UNCHANGED <<today, total_quantity, batches, sales, saleItems, returns,
                   adjustments, customers, resp, prescriptions,
                   office>>

\* the writes of the cart line: SaleItem inserts, batch.save(), medicine.save()
WriteLine(p) ==
    /\ txn[p].pc = "write"
    /\ CanWrite(p)
    /\ LET t == txn[p] IN
       txn' = [txn EXCEPT
                 ![p].tq = t.plan.tq @@ @,
                 ![p].rem = t.plan.rem @@ @,
                 ![p].items = t.plan.items,
                 ![p].plan = <<>>,
                 ![p].result = t.plan.err,
                 ![p].i = IF t.plan.err = "" THEN @ + 1 ELSE @,
                 ![p].pc = IF t.plan.err # "" THEN "commit"
                           ELSE IF t.i < Len(t.cart) THEN "line"
                           ELSE "totals"]
    /\ UNCHANGED <<today, total_quantity, batches, sales, saleItems, returns,
                   adjustments, customers, resp, prescriptions,
                   office>>

\* sale.subtotal = aggregate, sale.save(), and the read of sale.customer
Totals(p) ==
    /\ txn[p].pc = "totals"
    /\ LET t == txn[p] IN
       txn' = [txn EXCEPT
                 ![p].pc = "commit",
                 ![p].result = "success",
                 ![p].sale = SaleSave([t.sale EXCEPT
                                          !.subtotal = ItemsTotal(t.items, t.sale.id)],
                                      sales, today),
                 ![p].customer = IF t.sale.customer = 0 THEN <<>>
                                 ELSE customers[t.sale.customer]]
    /\ UNCHANGED <<today, total_quantity, batches, sales, saleItems, returns,
                   adjustments, customers, resp, prescriptions,
                   office>>

\* sale.customer.save() and sale.prescription.save() when the sale went
\* through, the response, and the commit of the atomic block: the
\* transaction's writes reach the tables
Commit(p) ==
    /\ txn[p].pc = "commit"
    /\ LET t == txn[p] IN
       /\ total_quantity' = [m \in Medicines |->
                               IF m \in DOMAIN t.tq THEN t.tq[m]
                               ELSE total_quantity[m]]
       /\ batches' = [b \in DOMAIN batches |->
                        IF b \in DOMAIN t.rem
                        THEN [batches[b] EXCEPT !.remaining_quantity = t.rem[b]]
                        ELSE batches[b]]
       /\ saleItems' = saleItems \o t.items
       /\ sales' = Append(sales, SaleRow(t.sale))
       /\ customers' = IF t.result = "success" /\ t.sale.customer # 0
                       THEN [customers EXCEPT ![t.sale.customer] =
                                CustomerAfterSale(t.customer, t.sale)]
                       ELSE customers
       /\ prescriptions' = IF t.result = "success" /\ t.sale.prescription # 0
                           THEN [prescriptions EXCEPT ![t.sale.prescription] =
                                    PrescriptionAfterSale(@, today)]
                           ELSE prescriptions
       /\ resp' = Response("process_sale", t.result)
       /\ txn' = [txn EXCEPT ![p] = Answered(t, t.result)]
    /\ UNCHANGED <<today, returns, adjustments, office>>

\* the statement the transaction is at cannot proceed
Blocked(p) ==
    \/ txn[p].pc = "insert" /\ ~CanInsert(p)
    \/ txn[p].pc = "line"
          /\ ~CanLock(p, txn[p].cart[txn[p].i].medicine_id)
    \/ txn[p].pc = "write" /\ ~CanWrite(p)

\* (variant: a database that never looks for a cycle of waits)
DeadlockUndetected == FALSE

\* the database finds that every open transaction waits for another
DeadlockDetected == \A q \in Terminals : Blocked(q)

\* Every open transaction waits for another: the database ends one of them
\* with an error, which the view answers and which rolls its writes back.
DeadlockVictim(p) ==
    /\ DeadlockDetected
    /\ txn' = [txn EXCEPT ![p] = Answered(@, "Error processing sale")]
    /\ resp' = Response("process_sale", "Error processing sale")
    /\ UNCHANGED <<today, total_quantity, batches, sales, saleItems, returns,
                   adjustments, customers, prescriptions, office>>

InitConc ==
    /\ today = 1
    /\ total_quantity = [m \in Medicines |-> BatchSum(StockedBatches, m)]
    /\ batches = StockedBatches
    /\ sales = <<>>
    /\ saleItems = <<>>
    /\ returns = <<>>
    /\ prescriptions = [x \in Prescriptions |-> PendingPrescription]
    /\ adjustments = 0
    /\ customers = [c \in Customers |-> [total_purchases |-> 0, loyalty_points |-> 0]]
    /\ resp = Response("batch_create", "success")
    /\ txn = [p \in Terminals |-> IdleTxn]
    /\ office = [c \in Clerks |-> IdleOffice]

NextConc ==
    \/ \E p \in Terminals, cart \in ConcCarts, form \in ConcForms :
          BeginSale(p, cart, form)
    \/ \E p \in Terminals : InsertSale(p)
    \/ \E p \in Terminals : \E ord \in ExpiryOrders(batches) : LockMedicine(p, ord)
    \/ \E p \in Terminals : WriteLine(p)
    \/ \E p \in Terminals : Totals(p)
    \/ \E p \in Terminals : Commit(p)
    \/ \E p \in Terminals : DeadlockVictim(p)
    \/ NextDay

SpecConc == InitConc /\ [][NextConc]_vars

\* The same with the scheduling of the tills: a request whose next statement
\* can proceed does proceed, and the database does end a deadlock.
SpecConcLive ==
    /\ InitConc
    /\ [][NextConc]_vars
    /\ \A p \in Terminals :
          WF_vars(\/ InsertSale(p)
                  \/ \E ord \in ExpiryOrders(batches) : LockMedicine(p, ord)
                  \/ WriteLine(p)
                  \/ Totals(p)
                  \/ Commit(p))
    /\ WF_vars(\E p \in Terminals : DeadlockVictim(p))

\* ======================================================================
\* Two clerks at once, each adding a Return in the admin.  The add view
\* runs in a transaction of the same database: Return.save computes the
\* return number from the committed rows, the INSERT waits for an open
\* transaction that has inserted the same number, and fails once a row with
\* that number is committed.
\* ======================================================================
\* the clerk's record once the request is answered
OfficeDone(result) == [pc |-> "done", result |-> result]

\* Return.save up to `self.return_number = ...`
SaveReturn(c, sale_id) ==
    /\ office[c].pc = "idle"
    /\ sale_id \in DOMAIN sales
    /\ office' = [office EXCEPT ![c] =
                     [pc |-> "insert",
                      row |-> NewReturn(returns, today, sale_id, 0, <<>>)]]
    /\ UNCHANGED <<today, total_quantity, batches, sales, saleItems, returns,
                   prescriptions, adjustments, customers, resp, txn>>

\* the INSERT of the Return row proceeds only when no other open transaction
\* has inserted the same return_number
CanInsertReturn(c) ==
    \A d \in Clerks \ {c} :
       ~(/\ office[d].pc = "commit"
         /\ office[d].row.return_number = office[c].row.return_number)

\* super().save(): the INSERT; an IntegrityError when the number is taken
InsertReturn(c) ==
    /\ office[c].pc = "insert"
    /\ CanInsertReturn(c)
    /\ IF \E i \in DOMAIN returns :
             returns[i].return_number = office[c].row.return_number
       THEN /\ office' = [office EXCEPT ![c] = OfficeDone("IntegrityError")]
            /\ resp' = Response("admin_return_add", "IntegrityError")
       ELSE /\ office' = [office EXCEPT ![c].pc = "commit"]
            /\ resp' = resp
    /\ UNCHANGED <<today, total_quantity, batches, sales, saleItems, returns,
                   prescriptions, adjustments, customers, txn>>

\* the commit of the add view
CommitReturn(c) ==
    /\ office[c].pc = "commit"
    /\ returns' = Append(returns, office[c].row)
    /\ office' = [office EXCEPT ![c] = OfficeDone("success")]
    /\ resp' = Response("admin_return_add", "success")
    /\ UNCHANGED <<today, total_quantity, batches, sales, saleItems,
                   prescriptions, adjustments, customers, txn>>

NextDesk ==
    \/ /\ Len(sales) < MaxSales
       /\ \E cart \in SoldCarts, form \in PaymentForms :
             \E ords \in [1..Len(cart) -> ExpiryOrders(batches)] :
                ProcessSale(cart, form, ords)
    \/ \E c \in Clerks, sale_id \in 1..MaxSales : SaveReturn(c, sale_id)
    \/ \E c \in Clerks : InsertReturn(c)
    \/ \E c \in Clerks : CommitReturn(c)
    \/ NextDay

SpecDesk == InitPOS /\ [][NextDesk]_vars

\* ======================================================================
\* A till and a clerk at once.  batch_create and stock_adjustment run
\* outside any transaction: each statement commits by itself.  The view
\* reads the Medicine row first and writes it back at the end; the UPDATE
\* waits while a process_sale transaction holds the row's lock.
\* ======================================================================
\* the stock requests of the clerk: receipts and adjustments
StockRequests ==
    {[kind |-> "batch_create", m |-> r[1], quantity |-> r[2],
      expiry_date |-> r[3]] : r \in Receipts}
    \cup [kind : {"stock_adjustment"}, m : Medicines,
          adjustment_type : AdjustmentTypes, quantity : 1..MaxAdjustQty,
          batch_id : 0..MaxBatches]

\* medicine = get_object_or_404(Medicine, pk=medicine_id): a plain read of
\* the committed row
ReadMedicine(c, request) ==
    /\ office[c].pc = "idle"
    /\ request.kind = "stock_adjustment" /\ request.batch_id # 0
          => /\ request.batch_id \in DOMAIN batches
             /\ batches[request.batch_id].medicine = request.m
    /\ office' = [office EXCEPT ![c] =
                     [pc |-> "write", request |-> request,
                      tq |-> total_quantity[request.m]]]
    /\ UNCHANGED <<today, total_quantity, batches, sales, saleItems, returns,
                   prescriptions, adjustments, customers, resp, txn>>

\* (variant: the Medicine row is read again, under its lock, when it is written)
FreshQuantity(c) == total_quantity[office[c].request.m]

\* medicine.total_quantity as the view holds it: the value read at the start
HeldQuantity(c) == office[c].tq

\* the rows the clerk's statements write are not held by an open transaction
RowsFree(c) ==
    \A p \in Terminals :
       /\ office[c].request.m \notin txn[p].locks
       /\ office[c].request.kind = "stock_adjustment"
             => office[c].request.batch_id \notin DOMAIN txn[p].rem

\* the writes of the view: Batch.objects.create or batch.save(), then
\* medicine.save() with the quantity computed from the value held
WriteStock(c) ==
    /\ office[c].pc = "write"
    /\ RowsFree(c)
    /\ LET o == office[c].request
           held == HeldQuantity(c)
       IN IF o.kind = "batch_create"
          THEN /\ batches' = Append(batches,
                      [medicine |-> o.m, quantity |-> o.quantity,
                       remaining_quantity |-> o.quantity,
                       expiry_date |-> o.expiry_date, is_active |-> TRUE])
               /\ total_quantity' =
                      [total_quantity EXCEPT ![o.m] = held + o.quantity]
               /\ adjustments' = adjustments
          ELSE /\ adjustments' = adjustments + 1
               /\ IF ReducesStock(o.adjustment_type)
                  THEN /\ total_quantity' =
                             [total_quantity EXCEPT
                                 ![o.m] = Max(0, held - Abs(o.quantity))]
                       /\ batches' =
                             IF o.batch_id = 0 THEN batches
                             ELSE [batches EXCEPT
                                      ![o.batch_id].remaining_quantity =
                                          Max(0, @ - Abs(o.quantity))]
                  ELSE /\ total_quantity' =
                             [total_quantity EXCEPT
                                 ![o.m] = held + Abs(o.quantity)]
                       /\ batches' =
                             IF o.batch_id = 0 THEN batches
                             ELSE [batches EXCEPT
                                      ![o.batch_id].remaining_quantity =
                                          @ + Abs(o.quantity)]
    /\ office' = [office EXCEPT ![c] =
                     [pc |-> "done", result |-> "success",
                      request |-> office[c].request]]
    /\ resp' = Response(office[c].request.kind, "success")
    /\ UNCHANGED <<today, sales, saleItems, returns, prescriptions, customers,
                   txn>>

NextStock ==
    \/ \E cart \in ConcCarts, form \in ConcForms : BeginSale(1, cart, form)
    \/ InsertSale(1)
    \/ \E ord \in ExpiryOrders(batches) : LockMedicine(1, ord)
    \/ WriteLine(1)
    \/ Totals(1)
    \/ Commit(1)
    \/ \E request \in StockRequests : ReadMedicine(1, request)
    \/ WriteStock(1)

SpecStock == InitConc /\ [][NextStock]_vars

\* ======================================================================
\* The claims
\* ======================================================================

\* a step of process_sale, and one that answered success
SaleStep == resp'.view = "process_sale" /\ today' = today /\ txn' = txn
SaleSucceeds == SaleStep /\ resp'.result = "success"

\* the SaleItem rows a step creates
NewItems == (Len(saleItems) + 1)..Len(saleItems')

\* C1: process_sale is all-or-nothing: a submission either succeeds and
\* persists one completed Sale with its SaleItems, or it fails and leaves no
\* Sale row, no SaleItem row, no Batch.remaining_quantity change and no
\* Medicine.total_quantity change.
C1_AllOrNothing ==
    [][SaleStep =>
          IF resp'.result = "success"
          THEN /\ Len(sales') = Len(sales) + 1
               /\ sales'[Len(sales')].status = "completed"
               /\ \A k \in NewItems : saleItems'[k].sale = sales'[Len(sales')].id
          ELSE UNCHANGED <<sales, saleItems, batches, total_quantity>>]_vars

\* C2: FEFO: in a successful sale the batches of a medicine are debited in
\* ascending expiry_date order, and a batch is debited only when every
\* eligible batch of the medicine that expires earlier ends up exhausted.
C2_FEFO ==
    [][SaleSucceeds =>
          \A k \in NewItems :
             LET it == saleItems'[k] IN
             it.quantity > 0 =>
                /\ \A b \in BatchFilter(batches, it.medicine, 1, today) :
                      batches[b].expiry_date < batches[it.batch].expiry_date
                         => batches'[b].remaining_quantity = 0
                /\ \A j \in NewItems :
                      (j < k /\ saleItems'[j].medicine = it.medicine)
                         => batches[saleItems'[j].batch].expiry_date
                               <= batches[it.batch].expiry_date]_vars

\* C3: a sale never debits, or creates a SaleItem against, a batch that is
\* inactive, has remaining_quantity = 0, or expires today or earlier.
C3_EligibleBatchesOnly ==
    [][SaleStep =>
          /\ \A k \in NewItems :
                saleItems'[k].batch \in BatchFilter(batches, saleItems'[k].medicine,
                                                    1, today)
          /\ \A b \in DOMAIN batches :
                batches'[b] # batches[b]
                   => b \in BatchFilter(batches, batches[b].medicine, 1, today)]_vars

\* the quantity the cart asks of medicine m
Requested(cart, m) ==
    SumOver([i \in DOMAIN cart |-> cart[i].quantity],
            {i \in DOMAIN cart : cart[i].medicine_id = m})

\* C4: conservation: in every completed sale, for every medicine of the
\* cart, the quantities of the SaleItems created sum to the requested
\* quantity, and Medicine.total_quantity and the sum of the medicine's
\* Batch.remaining_quantity both decrease by exactly that quantity.
C4_Conservation ==
    [][\A cart \in Carts, form \in PaymentForms :
          \A ords \in [1..Len(cart) -> ExpiryOrders(batches)] :
             (ProcessSale(cart, form, ords) /\ SaleSucceeds) =>
                \A m \in Medicines :
                   /\ SumOver([k \in NewItems |-> saleItems'[k].quantity],
                              {k \in NewItems : saleItems'[k].medicine = m})
                         = Requested(cart, m)
                   /\ total_quantity[m] - total_quantity'[m] = Requested(cart, m)
                   /\ BatchSum(batches, m) - BatchSum(batches', m)
                         = Requested(cart, m)]_vars

\* C5: at rest, each Medicine.total_quantity equals the sum of
\* remaining_quantity over its active batches that have not expired.
C5_TotalEqualsEligibleBatches ==
    \A m \in Medicines :
       total_quantity[m] =
          SumOver([b \in DOMAIN batches |-> batches[b].remaining_quantity],
                  {b \in DOMAIN batches :
                      /\ batches[b].medicine = m
                      /\ batches[b].is_active
                      /\ batches[b].expiry_date > today})

\* C6: every Batch has 0 <= remaining_quantity <= quantity.
C6_RemainingWithinQuantity ==
    \A b \in DOMAIN batches :
       /\ 0 <= batches[b].remaining_quantity
       /\ batches[b].remaining_quantity <= batches[b].quantity

\* the quantity of medicine m in the committed SaleItem rows
ItemsSold(m) ==
    SumOver([k \in DOMAIN saleItems |-> saleItems[k].quantity],
            {k \in DOMAIN saleItems : saleItems[k].medicine = m})

\* C7: no overselling under concurrency: the quantity of a medicine recorded
\* in SaleItems never exceeds the stock that was available, and two
\* process_sale transactions that both succeed never asked together for more
\* of a medicine than was in stock.
C7_NoOverselling ==
    /\ \A m \in Medicines : ItemsSold(m) <= BatchSum(StockedBatches, m)
    /\ \A p, q \in Terminals :
          (/\ p # q
           /\ txn[p].pc = "done" /\ txn[p].result = "success"
           /\ txn[q].pc = "done" /\ txn[q].result = "success")
             => \A m \in Medicines :
                   Requested(txn[p].cart, m) + Requested(txn[q].cart, m)
                      <= BatchSum(StockedBatches, m)

\* one transaction has locked a medicine and debited it, the other waits at
\* its select_for_update on the same medicine, and together they ask for
\* more than is in stock
C7_Witness ==
    \E p, q \in Terminals : \E m \in Medicines :
       /\ p # q
       /\ m \in txn[p].locks /\ m \in DOMAIN txn[p].tq
       /\ txn[q].pc = "line" /\ txn[q].cart[txn[q].i].medicine_id = m
       /\ Requested(txn[p].cart, m) + Requested(txn[q].cart, m)
             > BatchSum(StockedBatches, m)

\* C8: invoice number assignment is race-free: two sales being created at the
\* same time never hold the same computed invoice number (which they do
\* exactly when they read the same highest existing number of the date).
C8_DistinctInvoiceNumbers ==
    \A p, q \in Terminals :
       (/\ p # q
        /\ txn[p].pc \notin {"idle", "done"}
        /\ txn[q].pc \notin {"idle", "done"})
          => txn[p].sale.invoice_number # txn[q].sale.invoice_number

\* C9: sequential invoice numbers: the k-th Sale created on a date carries
\* INV-<that date>-<k as five digits>: strictly increasing and gapless from
\* 00001 within the date, restarting at 00001 on the next date.
C9_SequentialInvoiceNumbers ==
    \A i \in DOMAIN sales :
       LET n == sales[i].invoice_number
           earlier == {j \in 1..(i - 1) : sales[j].sale_date = sales[i].sale_date}
       IN /\ n # <<>>
          /\ n.date = sales[i].sale_date
          /\ Len(n.seq) = 5
          /\ ParseInt(n.seq) = Cardinality(earlier) + 1

\* two sales numbered 00001 and 00002 on one date, the next on a later date
C9_Witness ==
    /\ Len(sales) = 3
    /\ sales[1].sale_date = sales[2].sale_date
    /\ sales[2].sale_date < sales[3].sale_date
    /\ sales[2].invoice_number.seq = <<0, 0, 0, 0, 2>>
    /\ sales[3].invoice_number.seq = <<0, 0, 0, 0, 1>>

C11_ChangeAmount ==
    \A i \in DOMAIN sales :
       sales[i].status = "completed" =>
          sales[i].change_amount
             = Max(0, sales[i].amount_paid - sales[i].total_amount)

\* the stock that can be sold of medicine m: the remaining_quantity of its
\* active batches with stock left that expire after `day`
EligibleSum(bs, m, day) ==
    SumOver([b \in DOMAIN bs |-> bs[b].remaining_quantity],
            BatchFilter(bs, m, 1, day))

\* C12: a cart line fails with the insufficient-stock error exactly when the
\* eligible batches of its medicine hold less than the requested quantity;
\* when they hold at least that much the line is allocated in full.
C12_InsufficientIffShort ==
    [][\A m \in Medicines, quantity \in 1..MaxQty, form \in PaymentForms :
          \A ord \in ExpiryOrders(batches) :
             ProcessSale(<<[medicine_id |-> m, quantity |-> quantity]>>,
                         form, <<ord>>) =>
                IF EligibleSum(batches, m, today) < quantity
                THEN resp'.result = "Insufficient stock"
                ELSE /\ resp'.result = "success"
                     /\ SumOver([k \in NewItems |-> saleItems'[k].quantity],
                                NewItems) = quantity]_vars

\* C13: a cart that contains an unknown medicine id is rejected with the
\* medicine-not-found error before any mutation: no Sale row (so no invoice
\* number), no SaleItem row, no batch or medicine quantity changed.
C13_UnknownMedicineRejected ==
    [][\A cart \in Carts, form \in PaymentForms :
          \A ords \in [1..Len(cart) -> ExpiryOrders(batches)] :
             (/\ \E i \in DOMAIN cart : cart[i].medicine_id \notin Medicines
              /\ ProcessSale(cart, form, ords)) =>
                /\ resp'.result = "Medicine not found"
                /\ UNCHANGED <<sales, saleItems, batches, total_quantity,
                               customers>>]_vars

C15_QuantityBelowOneRejected ==
    [][/\ \A cart \in Carts, form \in PaymentForms :
             \A ords \in [1..Len(cart) -> ExpiryOrders(batches)] :
                (/\ \E i \in DOMAIN cart : cart[i].quantity < 1
                 /\ ProcessSale(cart, form, ords)) =>
                   /\ resp'.result # "success"
                   /\ UNCHANGED <<sales, saleItems, batches, total_quantity,
                                  customers>>
       /\ SaleStep =>
             /\ \A m \in Medicines : total_quantity'[m] <= total_quantity[m]
             /\ \A b \in DOMAIN batches :
                   batches'[b].remaining_quantity
                      <= batches[b].remaining_quantity]_vars

\* C16: a completed sale with a customer attached adds floor(total_amount /
\* 100) to that customer's loyalty_points and total_amount to the customer's
\* total_purchases, total_amount being the sale's final one; every other
\* submission leaves the customers as they were.
C16_CustomerStats ==
    [][SaleStep =>
          LET sale == sales'[Len(sales')] IN
          IF resp'.result = "success" /\ sale.customer # 0
          THEN customers' =
                  [customers EXCEPT
                      ![sale.customer].loyalty_points =
                          @ + (sale.total_amount \div (100 * 100)),
                      ![sale.customer].total_purchases =
                          @ + sale.total_amount]
          ELSE customers' = customers]_vars

\* C17: when sales for the same customer commit concurrently, the customer's
\* loyalty_points and total_purchases reflect every one of them: they are the
\* sums of floor(total_amount / 100) and of total_amount over the customer's
\* committed sales.
C17_NoLostCustomerUpdate ==
    \A c \in Customers :
       LET mine == {i \in DOMAIN sales : sales[i].customer = c} IN
       /\ customers[c].total_purchases
             = SumOver([i \in DOMAIN sales |-> sales[i].total_amount], mine)
       /\ customers[c].loyalty_points
             = SumOver([i \in DOMAIN sales |->
                           sales[i].total_amount \div (100 * 100)], mine)

\* ---------------------------------------------------------------- returns
\* a request every line of which names a SaleItem of the sale with a
\* quantity from 1 to the quantity sold
ValidReturn(sale_id, items_to_return) ==
    /\ sale_id \in DOMAIN sales
    /\ sales[sale_id].status = "completed"
    /\ items_to_return # <<>>
    /\ \A i \in DOMAIN items_to_return :
          /\ items_to_return[i].item_id \in DOMAIN saleItems
          /\ saleItems[items_to_return[i].item_id].sale = sale_id
          /\ items_to_return[i].quantity >= 1
          /\ items_to_return[i].quantity
                 <= saleItems[items_to_return[i].item_id].quantity

\* the returned quantity of the request's lines that satisfy keep
ReturnedQty(items_to_return, keep(_)) ==
    SumOver([i \in DOMAIN items_to_return |-> items_to_return[i].quantity],
            {i \in DOMAIN items_to_return : keep(items_to_return[i])})

\* C18: a valid return request on a completed sale persists a Return whose
\* refund_amount is the sum over its lines of quantity times the SaleItem's
\* unit_price, and each restocked line adds its quantity to the SaleItem's
\* batch remaining_quantity and to the medicine's total_quantity.
C18_ReturnPersisted ==
    [][\A sale_id \in 1..MaxSales, items_to_return \in ReturnRequests,
          restock \in RestockChoices :
          ( /\ ValidReturn(sale_id, items_to_return)
            /\ ProcessReturn(sale_id, items_to_return, restock) )
          => /\ Len(returns') = Len(returns) + 1
             /\ returns'[Len(returns')].original_sale = sale_id
             /\ returns'[Len(returns')].refund_amount =
                    SumOver([i \in DOMAIN items_to_return |->
                                items_to_return[i].quantity
                                * saleItems[items_to_return[i].item_id].unit_price],
                            DOMAIN items_to_return)
             /\ \A m \in Medicines :
                   total_quantity'[m] = total_quantity[m]
                       + LET Restocked(l) == /\ l.item_id \in restock
                                             /\ saleItems[l.item_id].medicine = m
                         IN ReturnedQty(items_to_return, Restocked)
             /\ \A b \in DOMAIN batches :
                   batches'[b].remaining_quantity = batches[b].remaining_quantity
                       + LET Restocked(l) == /\ l.item_id \in restock
                                             /\ saleItems[l.item_id].batch = b
                         IN ReturnedQty(items_to_return, Restocked)]_vars

\* a request one line of which asks for more than its SaleItem sold
OverReturn(items_to_return) ==
    \E i \in DOMAIN items_to_return :
        /\ items_to_return[i].item_id \in DOMAIN saleItems
        /\ items_to_return[i].quantity
               > saleItems[items_to_return[i].item_id].quantity

C20_ReturnWithinSold ==
    \A r \in DOMAIN returns : \A s \in DOMAIN saleItems :
        SumOver([i \in DOMAIN returns[r].items |-> returns[r].items[i].quantity],
                {i \in DOMAIN returns[r].items :
                    returns[r].items[i].sale_item = s})
            <= saleItems[s].quantity

\* C21: the original sale of every Return row has status refunded, whatever
\* part of the sale the Return covers, and a sale has status refunded only
\* if a Return row names it.
C21_RefundedIffReturned ==
    /\ \A r \in DOMAIN returns :
          sales[returns[r].original_sale].status = "refunded"
    /\ \A s \in DOMAIN sales :
          sales[s].status = "refunded"
              => \E r \in DOMAIN returns : returns[r].original_sale = s

\* C22: every committed Sale with status completed has at least one
\* SaleItem, each SaleItem's total_price is quantity times unit_price, the
\* Sale's subtotal is the sum of its SaleItems' total_price, and its derived
\* amounts are the formulas on that subtotal, stored to the cent.
C22_CompletedSaleIsWhole ==
    \A i \in DOMAIN sales :
       sales[i].status = "completed" =>
          LET s == sales[i]
              own == {k \in DOMAIN saleItems : saleItems[k].sale = i}
              p == s.discount_percentage
              t == s.tax_percentage
          IN /\ own # {}
             /\ \A k \in own : saleItems[k].total_price
                                  = saleItems[k].quantity * saleItems[k].unit_price
             /\ s.subtotal = ItemsTotal(saleItems, i)
             /\ Abs(100 * s.discount_amount - s.subtotal * p) <= 50
             /\ Abs(10000 * s.tax_amount - s.subtotal * (100 - p) * t) <= 5000
             /\ Abs(10000 * s.total_amount - s.subtotal * (100 - p) * (100 + t))
                   <= 5000

\* C23: a search at the POS and a listing of the medicines leave every
\* Medicine.total_quantity and every Batch row as they were, whatever the
\* query and however often repeated.
C23_ReadsDoNotWrite ==
    [][( \/ \E query \in SearchQueries : SearchMedicineAjax(query)
         \/ \E search_query \in SearchQueries \cup {""},
               stock_filter \in StockFilters :
               MedicineList(search_query, stock_filter) )
          => UNCHANGED <<total_quantity, batches>>]_vars

\* a search has answered with a medicine whose stock differs from its
\* total_quantity
C23_Witness ==
    /\ resp.view = "search_medicine_ajax"
    /\ \E x \in resp.result : x.stock # total_quantity[x.id]

\* C24: the prescription attached to a completed sale is filled, with
\* filled_by the serving user and filled_at set; a submission that fails
\* leaves the prescription as it was.
C24_PrescriptionFilled ==
    /\ [](\A i \in DOMAIN sales :
            (sales[i].status = "completed" /\ sales[i].prescription # 0)
               => /\ prescriptions[sales[i].prescription].status = "filled"
                  /\ prescriptions[sales[i].prescription].filled_by
                        = "request.user"
                  /\ prescriptions[sales[i].prescription].filled_at # 0)
    /\ [][(SaleStep /\ ~SaleSucceeds) => prescriptions' = prescriptions]_vars

\* C25: the Return rows of one date carry distinct return numbers, the k-th
\* of the date numbered k in four digits from 0001, and two Return creations
\* under way at the same time never hold the same computed number.
C25_ReturnNumbers ==
    /\ \A i \in DOMAIN returns :
          LET n == returns[i].return_number
              earlier == {j \in 1..(i - 1) : returns[j].return_number.date = n.date}
          IN /\ Len(n.seq) = ReturnPad
             /\ ParseInt(n.seq) = Cardinality(earlier) + 1
    /\ \A c, d \in Clerks :
          (/\ c # d
           /\ office[c].pc \in {"insert", "commit"}
           /\ office[d].pc \in {"insert", "commit"})
             => office[c].row.return_number # office[d].row.return_number

\* ORDER BY expiry_date with ties in creation (id) order
CreationOrder(bs) ==
    CHOOSE ord \in ExpiryOrders(bs) :
        \A i, j \in DOMAIN bs :
            (i < j /\ bs[ord[i]].expiry_date = bs[ord[j]].expiry_date)
                => ord[i] < ord[j]

\* C26: allocation is deterministic under expiry ties: a sale of a cart of
\* stocked medicines creates the SaleItems and leaves the batches that it
\* would with the batches of equal expiry_date taken in creation order.
C26_TiesInCreationOrder ==
    [][\A cart \in SoldCarts, form \in PaymentForms :
          \A ords \in [1..Len(cart) -> ExpiryOrders(batches)] :
             ProcessSale(cart, form, ords)
                => LET r == SaleLines([tq |-> total_quantity, batches |-> batches,
                                       items |-> saleItems],
                                      Len(sales) + 1, cart, today,
                                      [i \in 1..Len(cart) |-> CreationOrder(batches)],
                                      1)
                   IN saleItems' = r.st.items /\ batches' = r.st.batches]_vars

\* what the clerk's answered request adds to the stock of medicine m: on the
\* Medicine row (batch = FALSE) or on its Batch rows (batch = TRUE)
StockDelta(c, m, batch) ==
    LET o == office[c] IN
    IF o.pc # "done" \/ o.request.m # m THEN 0
    ELSE IF o.request.kind = "batch_create" THEN o.request.quantity
    ELSE IF batch /\ o.request.batch_id = 0 THEN 0
    ELSE IF ReducesStock(o.request.adjustment_type)
         THEN 0 - Abs(o.request.quantity)
         ELSE Abs(o.request.quantity)

\* what the till's sale, once it has succeeded, takes from medicine m
SoldBy(p, m) ==
    IF txn[p].pc = "done" /\ txn[p].result = "success"
    THEN Requested(txn[p].cart, m) ELSE 0

\* C27: no lost update on the stock counters: once a sale that went through
\* and a stock adjustment or batch receipt on the same medicine have both
\* ended, Medicine.total_quantity and the sum of Batch.remaining_quantity
\* are the initial values plus the net effect of both (not below 0).
C27_NoLostStockUpdate ==
    ( /\ txn[1].pc = "idle" \/ (txn[1].pc = "done" /\ txn[1].result = "success")
      /\ office[1].pc \in {"idle", "done"} )
       => \A m \in Medicines :
             /\ total_quantity[m] =
                   Max(0, BatchSum(StockedBatches, m) - SoldBy(1, m)
                            + StockDelta(1, m, FALSE))
             /\ BatchSum(batches, m) =
                   Max(0, BatchSum(StockedBatches, m) - SoldBy(1, m)
                            + StockDelta(1, m, TRUE))

\* the Sale row but for its status
SaleBut(row) == [row EXCEPT !.status = "any"]

C29_EverySaleEnds ==
    \A p \in Terminals :
       (txn[p].pc \notin {"idle", "done"})
          ~> (txn[p].pc = "done" /\ txn[p].result # "")

\* the tills' carts had the same two medicines in opposite order, each till
\* locked its first medicine and waited for the other's: one has been
\* answered with the error, its Sale row having been inserted, and the other
\* goes on with its second line
C29_Witness ==
    \E p, q \in Terminals :
       /\ p # q
       /\ txn[p].pc = "done" /\ txn[p].result = "Error processing sale"
       /\ txn[p].sale.id # 0
       /\ Len(txn[p].cart) = 2 /\ Len(txn[q].cart) = 2
       /\ txn[p].cart[1].medicine_id = txn[q].cart[2].medicine_id
       /\ txn[p].cart[2].medicine_id = txn[q].cart[1].medicine_id
       /\ txn[p].cart[1].medicine_id # txn[p].cart[2].medicine_id
       /\ txn[q].pc = "line" /\ txn[q].i = 2

\* C30: Medicine.total_quantity and Batch.remaining_quantity are never
\* negative, after any sequence of sales and returns with quantities from 1,
\* stock adjustments and batch receipts.
C30_StockNeverNegative ==
    /\ \A m \in Medicines : total_quantity[m] >= 0
    /\ \A b \in DOMAIN batches : batches[b].remaining_quantity >= 0

====
